---- MODULE Spec2Model ----
(***************************************************************************)
(* Verification model of the arc gateway (appbaseio/arc):                  *)
(*   - internal/types/op      : Operation and its JSON (un)marshalling     *)
(*   - plugins/auth (es6 dao) : credential store access                    *)
(*   - plugins/logs           : middleware chain, recorder, audit logging  *)
(*   - plugins/logs (dao)     : Instance(), rolloverIndexJob               *)
(*   - plugins/users (dao)    : newClient, hashPasswords, postMasterUser   *)
(*   - resolver, rate limiter : time-to-live and quota of a Permission     *)
(***************************************************************************)
EXTENDS Integers, Sequences, FiniteSets, TLC

VARIABLES
    opPc,       \* last step taken on the Operation codec
    opSrc,      \* Operation value handed to MarshalJSON
    opBytes,    \* bytes produced by MarshalJSON / handed to UnmarshalJSON
    opErr,      \* TRUE iff the last codec call returned a non-nil error
    opPrev,     \* value of *o before the last UnmarshalJSON call
    opTarget    \* value of *o after the last UnmarshalJSON call

opVars == <<opPc, opSrc, opBytes, opErr, opPrev, opTarget>>

VARIABLES
    docs,       \* documents of the user and permission indices (read by Get)
    searchable, \* documents the last refresh made visible to Search
    writes,     \* number of documents indexed so far
    authCall,   \* the last dao call and its result
    justPut,    \* the record written by the last dao call, if it was a put
    readAfter   \* the put that immediately preceded the last dao read

authVars == <<docs, searchable, writes, authCall, justPut, readAfter>>

VARIABLES
    impl,         \* which of the two versions of the logs middleware runs
    rpc,          \* per request: the next statement of recorder to execute
    req,          \* per request: what the request carries when recorder runs
    served,       \* per request: number of calls of the wrapped handler
    respRecorder, \* per request: the response captured by httptest.NewRecorder
    clientResp,   \* per request: what has been written to the client's writer
    reqObj,       \* per request: mutable state of the *http.Request
    logpc,        \* per request: position of the detached recordResponse task
    sink          \* the audit log file, as the sequence of writes made to it

recVars == <<impl, rpc, req, served, respRecorder, clientResp, reqObj, logpc,
             sink>>

VARIABLES
    chPc,     \* position of the request in the chain of the logs routes
    chReq,    \* the request: its method and the credential it presents
    chCtx,    \* values the stages have attached to the request context
    chTrace,  \* the stages that have run for the request, in order
    chResp    \* the terminal response, once a stage or the handler wrote it

chainVars == <<chPc, chReq, chCtx, chTrace, chResp>>

VARIABLES
    bodyPc,   \* position of the request whose bodies are being recorded
    bodyIn,   \* the request: its category, its body and the handler's response
    bodyRec   \* rec.Request.Body and rec.Response.Body of the audit record

bodyVars == <<bodyPc, bodyIn, bodyRec>>

VARIABLES
    instPc,     \* per call of Instance(): the next step of the call
    instRes,    \* per call: the pointer returned, and whether it took the lock
    onceDone,   \* once.done
    onceM,      \* once.m: the call holding the mutex, 0 when free
    singleton,  \* the package variable singleton
    allocated   \* number of Logs values allocated so far

onceVars == <<instPc, instRes, onceDone, onceM, singleton, allocated>>

VARIABLES
    uPc,      \* position of newClient of the users plugin
    uExists,  \* whether the index of the users exists
    uDocs,    \* per username: the user document of the index
    hpRes,    \* the run of hashPasswords: its outcome and the index before it
    uRes      \* what newClient returns, and the master user it posted

usersVars == <<uPc, uExists, uDocs, hpRes, uRes>>

VARIABLES
    clock,     \* the current time
    tStore,    \* the searchable documents of the user and permission indices
    tStamp,    \* per username: created_at and ttl of its Permission
    resolved   \* the last resolution: when, of what, and its outcome

ttlVars == <<clock, tStore, tStamp, resolved>>

VARIABLES
    limit,   \* the configured number of requests per window, 0 before it is set
    bucket,  \* per key: the requests left in the current window
    window,  \* the number of the current window
    lreq     \* per request: its key, its outcome and the window it was decided in

limiterVars == <<limit, bucket, window, lreq>>

VARIABLES
    logIndices,  \* the numbers of the existing indices `${alias}-<number>`
    jobRuns,     \* number of runs of rolloverIndexJob so far
    job          \* the last run: what it found and which of its calls failed

rolloverVars == <<logIndices, jobRuns, job>>

\* the state of the components modelled after the request path
pluginVars == <<bodyVars, onceVars, usersVars, ttlVars, limiterVars,
                rolloverVars>>

\* the state of the codec, the credential store, the recorder and the chain
coreVars == <<opVars, authVars, recVars, chainVars>>

vars == <<coreVars, pluginVars>>

\* what the steps of one component leave alone
exceptOp == <<authVars, recVars, chainVars, pluginVars>>
exceptAuth == <<opVars, recVars, chainVars, pluginVars>>
exceptRec == <<opVars, authVars, chainVars, pluginVars>>
exceptChain == <<opVars, authVars, recVars, pluginVars>>
exceptBody ==
    <<coreVars, onceVars, usersVars, ttlVars, limiterVars, rolloverVars>>
exceptOnce ==
    <<coreVars, bodyVars, usersVars, ttlVars, limiterVars, rolloverVars>>
exceptUsers ==
    <<coreVars, bodyVars, onceVars, ttlVars, limiterVars, rolloverVars>>
exceptTtl ==
    <<coreVars, bodyVars, onceVars, usersVars, limiterVars, rolloverVars>>
exceptLimiter ==
    <<coreVars, bodyVars, onceVars, usersVars, ttlVars, rolloverVars>>
exceptRollover ==
    <<coreVars, bodyVars, onceVars, usersVars, ttlVars, limiterVars>>

(***************************************************************************)
(* internal/types/op/Op.go                                                 *)
(***************************************************************************)

\* largest integer tried as an Operation value (Operation is a Go int)
MaxOpInt == 5

Noop == 0
Read == 1
Write == 2
Delete == 3

DefinedOps == {Noop, Read, Write, Delete}
OpValues == (0 - 1)..MaxOpInt

Quote == "\""
LowerChars == {"a","b","c","d","e","f","g","h","i","j","k","l","m",
               "n","o","p","q","r","s","t","u","v","w","x","y","z"}

\* Operation.String: index into the literal array of tokens
String(o) == << <<"n","o","o","p">>,
                <<"r","e","a","d">>,
                <<"w","r","i","t","e">>,
                <<"d","e","l","e","t","e">> >>[o + 1]

\* json.Marshal of a Go string made of plain characters: the quoted string
JsonMarshalString(s) == <<Quote>> \o s \o <<Quote>>

JsonNull == <<"n","u","l","l">>

\* the JSON decoder skips white space around a value
RECURSIVE JsonTrim(_)
JsonTrim(b) ==
    IF Len(b) > 0 /\ b[1] = " " THEN JsonTrim(Tail(b))
    ELSE IF Len(b) > 0 /\ b[Len(b)] = " "
    THEN JsonTrim(SubSeq(b, 1, Len(b) - 1))
    ELSE b

\* json.Unmarshal(bytes, &op) with op a Go string: a JSON string literal
\* yields its content, null leaves op empty, anything else is an error
\* (the inputs tried hold no escape sequences)
JsonUnmarshalString(bytes) ==
    LET b == JsonTrim(bytes) IN
    IF b = JsonNull THEN [err |-> FALSE, s |-> <<>>]
    ELSE IF /\ Len(b) >= 2
            /\ b[1] = Quote
            /\ b[Len(b)] = Quote
            /\ \A i \in 2..(Len(b) - 1) : b[i] # Quote
         THEN [err |-> FALSE, s |-> SubSeq(b, 2, Len(b) - 1)]
         ELSE [err |-> TRUE, s |-> <<>>]

\* a variant of UnmarshalJSON whose "write" case stores Read
UnmarshalJSONWrongCase(bytes, o) ==
    LET d == JsonUnmarshalString(bytes) IN
    IF d.err THEN [err |-> TRUE, o |-> o]
    ELSE CASE d.s = String(Noop)   -> [err |-> FALSE, o |-> Noop]
           [] d.s = String(Read)   -> [err |-> FALSE, o |-> Read]
           [] d.s = String(Write)  -> [err |-> FALSE, o |-> Read]
           [] d.s = String(Delete) -> [err |-> FALSE, o |-> Delete]
           [] OTHER                -> [err |-> TRUE, o |-> o]

\* a variant of UnmarshalJSON that falls back to Noop on an unknown token
UnmarshalJSONDefaultNoop(bytes, o) ==
    LET d == JsonUnmarshalString(bytes) IN
    IF d.err THEN [err |-> TRUE, o |-> o]
    ELSE CASE d.s = String(Noop)   -> [err |-> FALSE, o |-> Noop]
           [] d.s = String(Read)   -> [err |-> FALSE, o |-> Read]
           [] d.s = String(Write)  -> [err |-> FALSE, o |-> Write]
           [] d.s = String(Delete) -> [err |-> FALSE, o |-> Delete]
           [] OTHER                -> [err |-> TRUE, o |-> Noop]

\* (*Operation).UnmarshalJSON: o is the value of *o before the call; the
\* result carries the error flag and the value of *o after the call
UnmarshalJSON(bytes, o) ==
    LET d == JsonUnmarshalString(bytes) IN
    IF d.err THEN [err |-> TRUE, o |-> o]
    ELSE CASE d.s = String(Noop)   -> [err |-> FALSE, o |-> Noop]
           [] d.s = String(Read)   -> [err |-> FALSE, o |-> Read]
           [] d.s = String(Write)  -> [err |-> FALSE, o |-> Write]
           [] d.s = String(Delete) -> [err |-> FALSE, o |-> Delete]
           [] OTHER                -> [err |-> TRUE, o |-> o]

\* Operation.MarshalJSON: the bytes are nil (empty) when an error is returned
MarshalJSON(o) ==
    IF o \in {Noop, Read, Write, Delete}
    THEN [err |-> FALSE, bytes |-> JsonMarshalString(String(o))]
    ELSE [err |-> TRUE, bytes |-> <<>>]

\* byte strings handed to UnmarshalJSON besides the ones MarshalJSON produces
ForeignInputs ==
    { JsonMarshalString(<<"R","e","a","d">>),
      JsonMarshalString(<<"r","e","a","d","s">>),
      JsonMarshalString(<<"r","e","a","d"," ">>),
      JsonMarshalString(<<"u","p","d","a","t","e">>),
      JsonMarshalString(<<>>),
      JsonMarshalString(<<"1">>),
      JsonNull,
      <<" ">> \o JsonMarshalString(<<"r","e","a","d">>) \o <<" ">>,
      <<"1">>,
      <<"r","e","a","d">>,
      <<Quote,"r","e","a","d">>,
      <<>> }

OpInputs ==
    ForeignInputs \cup {JsonMarshalString(String(o)) : o \in DefinedOps}

KnownTokens == { String(o) : o \in DefinedOps }

OpInit ==
    /\ opPc = "idle"
    /\ opSrc = Noop
    /\ opBytes = <<>>
    /\ opErr = FALSE
    /\ opPrev = Noop
    /\ opTarget = Noop

\* a caller serializes the Operation value v
OpMarshal(v) ==
    /\ opPc' = "marshalled"
    /\ opSrc' = v
    /\ opBytes' = MarshalJSON(v).bytes
    /\ opErr' = MarshalJSON(v).err
    /\ UNCHANGED <<opPrev, opTarget>>

\* a caller deserializes the bytes MarshalJSON just produced into a variable
\* that currently holds t
OpRoundTrip(t) ==
    /\ opPc = "marshalled"
    /\ ~opErr
    /\ opPc' = "roundtrip"
    /\ opPrev' = t
    /\ opTarget' = UnmarshalJSON(opBytes, t).o
    /\ opErr' = UnmarshalJSON(opBytes, t).err
    /\ UNCHANGED <<opSrc, opBytes>>

\* a caller deserializes arbitrary bytes b into a variable that holds t
OpUnmarshal(b, t) ==
    /\ opPc' = "unmarshalled"
    /\ opBytes' = b
    /\ opPrev' = t
    /\ opTarget' = UnmarshalJSON(b, t).o
    /\ opErr' = UnmarshalJSON(b, t).err
    /\ UNCHANGED opSrc

(***************************************************************************)
(* plugins/auth/dao_es6.go                                                 *)
(***************************************************************************)

\* number of documents indexed in one run
MaxWrites == 2
\* number of distinct payloads a put can carry
MaxVer == 1

Usernames == {"alice", "bob"}
userIndex == "user"
permissionIndex == "permission"
AuthIndices == {userIndex, permissionIndex}

\* shape of a stored document's _source as the decoder sees it
SourceShapes == {"ok", "nil", "bad"}

NoDoc == [ver |-> 0, src |-> "absent"]

\* an index content is the set of its documents; the id of a document is its
\* username (Id(u.Username), Id(p.Username))
EmptyStore == {}

\* the document of the index with the given id, NoDoc if there is none
DocAt(view, index, username) ==
    IF \E d \in view : d.index = index /\ d.username = username
    THEN LET d == CHOOSE d \in view : d.index = index /\ d.username = username
         IN [ver |-> d.ver, src |-> d.src]
    ELSE NoDoc

\* Index().Index(index).Id(username): the document replaces the one with
\* the same id
WithDoc(view, index, username, ver, src) ==
    {d \in view : ~(d.index = index /\ d.username = username)} \cup
    {[index |-> index, username |-> username, ver |-> ver, src |-> src]}

\* the documents of one index
IndexOf(view, index) == {d \in view : d.index = index}
NilCred == [kind |-> "nil", username |-> "", ver |-> 0]
NoPut == [index |-> "", username |-> "", ver |-> 0]


\* es.client.Search().Index(userIndex, permissionIndex).Query(term username):
\* the indices holding a visible document whose username is the given one
SearchHits(view, username) ==
    {i \in AuthIndices : DocAt(view, i, username).src # "absent"}

\* a variant of the decoding that makes a user.User of every hit
DecodeHitAsUser(view, index, username) ==
    [kind |-> userIndex, username |-> username,
     ver |-> DocAt(view, index, username).ver]

\* json.Unmarshal of a hit into user.User / permission.Permission
DecodeHit(view, index, username) ==
    [kind |-> index, username |-> username,
     ver |-> DocAt(view, index, username).ver]

\* a variant of getCredential without the check on the number of hits: the
\* loop over the hits keeps the last one
getCredentialNoHitCheck(view, username, fails) ==
    IF fails THEN [cred |-> NilCred, err |-> "store", panic |-> FALSE]
    ELSE LET hits == SearchHits(view, username) IN
         IF hits = {} THEN [cred |-> NilCred, err |-> "", panic |-> FALSE]
         ELSE LET index == IF permissionIndex \in hits THEN permissionIndex
                                                       ELSE userIndex
                  src == DocAt(view, index, username).src IN
              IF src = "bad"
              THEN [cred |-> NilCred, err |-> "decode", panic |-> FALSE]
              ELSE IF src = "nil"
              THEN [cred |-> NilCred, err |-> "",
                    panic |-> index = permissionIndex]
              ELSE [cred |-> DecodeHit(view, index, username), err |-> "",
                    panic |-> FALSE]

\* a variant of getCredential that prefers the user hit to the permission hit
\* when both match
getCredentialUserFirst(view, username, fails) ==
    IF fails THEN [cred |-> NilCred, err |-> "store", panic |-> FALSE]
    ELSE LET hits == SearchHits(view, username) IN
         IF hits = {} THEN [cred |-> NilCred, err |-> "", panic |-> FALSE]
         ELSE LET index == IF userIndex \in hits THEN userIndex
                                                 ELSE permissionIndex
                  src == DocAt(view, index, username).src IN
              IF src = "bad"
              THEN [cred |-> NilCred, err |-> "decode", panic |-> FALSE]
              ELSE IF src = "nil"
              THEN [cred |-> NilCred, err |-> "",
                    panic |-> index = permissionIndex]
              ELSE [cred |-> DecodeHit(view, index, username), err |-> "",
                    panic |-> FALSE]

\* elasticsearch.getCredential: the result for a search answered from view;
\* fails is the outcome of the store call (transport or server error)
getCredentialResult(view, username, fails) ==
    IF fails THEN [cred |-> NilCred, err |-> "store", panic |-> FALSE]
    ELSE LET hits == SearchHits(view, username) IN
         IF Cardinality(hits) > 1
         THEN [cred |-> NilCred, err |-> "ambiguous", panic |-> FALSE]
         ELSE IF hits = {}
         THEN [cred |-> NilCred, err |-> "", panic |-> FALSE]
         ELSE LET index == CHOOSE i \in hits : TRUE
                  src == DocAt(view, index, username).src IN
              IF index = userIndex
              THEN IF src = "nil"
                   THEN [cred |-> NilCred, err |-> "", panic |-> FALSE]
                   ELSE IF src = "bad"
                   THEN [cred |-> NilCred, err |-> "decode", panic |-> FALSE]
                   ELSE [cred |-> DecodeHit(view, index, username), err |-> "",
                         panic |-> FALSE]
              ELSE IF src = "nil"
                   THEN [cred |-> NilCred, err |-> "", panic |-> TRUE]
                   ELSE IF src = "bad"
                   THEN [cred |-> NilCred, err |-> "decode", panic |-> FALSE]
                   ELSE [cred |-> DecodeHit(view, index, username), err |-> "",
                         panic |-> FALSE]

\* elasticsearch.getRawUser / getRawPermission followed by json.Unmarshal:
\* Get by id reads the document store itself; a missing id is an error
getByIdResult(store, index, username, fails) ==
    IF fails THEN [cred |-> NilCred, err |-> "store", panic |-> FALSE]
    ELSE LET src == DocAt(store, index, username).src IN
         IF src = "absent"
         THEN [cred |-> NilCred, err |-> "notfound", panic |-> FALSE]
         ELSE IF src = "nil"
         THEN [cred |-> NilCred, err |-> "", panic |-> TRUE]
         ELSE IF src = "bad"
         THEN [cred |-> NilCred, err |-> "decode", panic |-> FALSE]
         ELSE [cred |-> DecodeHit(store, index, username), err |-> "",
               panic |-> FALSE]

AuthInit ==
    /\ docs = EmptyStore
    /\ searchable = EmptyStore
    /\ writes = 0
    /\ authCall = [op |-> "none", username |-> "", seen |-> EmptyStore,
                   stored |-> EmptyStore, cred |-> NilCred, err |-> "",
                   panic |-> FALSE]
    /\ justPut = NoPut
    /\ readAfter = NoPut

\* Index().Index(index).Id(username).BodyJson(..) without a refresh policy:
\* the document is stored, Search sees it only after the next refresh
putDoc(op, index, username, ver, fails) ==
    /\ writes < MaxWrites
    /\ IF fails
       THEN /\ UNCHANGED <<docs, writes>>
            /\ justPut' = NoPut
            /\ authCall' = [op |-> op, username |-> username,
                            seen |-> searchable, stored |-> docs,
                            cred |-> NilCred, err |-> "store", panic |-> FALSE]
       ELSE /\ docs' = WithDoc(docs, index, username, ver, "ok")
            /\ writes' = writes + 1
            /\ justPut' = [index |-> index, username |-> username, ver |-> ver]
            /\ authCall' = [op |-> op, username |-> username,
                            seen |-> searchable, stored |-> docs',
                            cred |-> NilCred, err |-> "", panic |-> FALSE]
    /\ UNCHANGED <<searchable, readAfter>>

putUser(username, ver, fails) ==
    putDoc("putUser", userIndex, username, ver, fails)

putPermission(username, ver, fails) ==
    putDoc("putPermission", permissionIndex, username, ver, fails)

getUser(username, fails) ==
    /\ authCall' = [op |-> "getUser", username |-> username,
                    seen |-> searchable, stored |-> docs] @@
                   getByIdResult(docs, userIndex, username, fails)
    /\ readAfter' = justPut
    /\ justPut' = NoPut
    /\ UNCHANGED <<docs, searchable, writes>>

getPermission(username, fails) ==
    /\ authCall' = [op |-> "getPermission", username |-> username,
                    seen |-> searchable, stored |-> docs] @@
                   getByIdResult(docs, permissionIndex, username, fails)
    /\ readAfter' = justPut
    /\ justPut' = NoPut
    /\ UNCHANGED <<docs, searchable, writes>>

getCredential(username, fails) ==
    /\ authCall' = [op |-> "getCredential", username |-> username,
                    seen |-> searchable, stored |-> docs] @@
                   getCredentialResult(searchable, username, fails)
    /\ readAfter' = justPut
    /\ justPut' = NoPut
    /\ UNCHANGED <<docs, searchable, writes>>

\* the periodic refresh of the store: everything indexed becomes searchable
Refresh ==
    /\ searchable # docs
    /\ searchable' = docs
    /\ UNCHANGED <<docs, writes, authCall, justPut, readAfter>>

\* a document indexed by another writer with Refresh("wait_for"): it is
\* searchable when the call returns
ExternalIndex(index, username, src) ==
    /\ writes < MaxWrites
    /\ docs' = WithDoc(docs, index, username, 0, src)
    /\ searchable' = {d \in searchable : d.index # index} \cup
                     IndexOf(docs', index)
    /\ writes' = writes + 1
    /\ justPut' = NoPut
    /\ UNCHANGED <<authCall, readAfter>>

(***************************************************************************)
(* plugins/logs: recorder and recordResponse (both versions of the file)   *)
(***************************************************************************)

\* number of requests served in one run
MaxReqs == 2

Reqs == 1..MaxReqs

\* the version importing reactivesearch-api writes records to lumberjack; the
\* version importing arc has the write commented out
Impls == {"rsapi", "arc"}

\* category found in the request context when recorder runs
CtxCategories == {"missing", "reactivesearch", "search"}

\* responses the wrapped handler produces
HandlerResponses ==
    { [code |-> 200, headers |-> "json", body |-> "hits"],
      [code |-> 404, headers |-> "text", body |-> "not found"] }

NoResponse == [code |-> 0, headers |-> "", body |-> ""]
NothingWritten == [by |-> "none", code |-> 0, headers |-> "", body |-> ""]
NoRequest == [streams |-> FALSE, category |-> "missing"]
FreshRequest == [ctxDone |-> FALSE, bodyClosed |-> FALSE]

\* a variant of recorder that detaches the logging task before the body is
\* written to the client
recorderBodySpawnEarly ==
    <<"serve", "copyHeaders", "writeHeader", "spawn", "writeBody">>

\* the statements of recorder after its early returns, in program order
recorderBody ==
    <<"serve", "copyHeaders", "writeHeader", "writeBody", "spawn">>

\* the statement that follows statement st of recorder
After(st) ==
    LET i == CHOOSE k \in 1..Len(recorderBody) : recorderBody[k] = st IN
    IF i = Len(recorderBody) THEN "returned" ELSE recorderBody[i + 1]

\* positions at which the detached task is running
LogActive == {"spawned", "built", "written"}

RecInit ==
    /\ impl \in Impls
    /\ rpc = [r \in Reqs |-> "idle"]
    /\ req = [r \in Reqs |-> NoRequest]
    /\ served = [r \in Reqs |-> 0]
    /\ respRecorder = [r \in Reqs |-> NoResponse]
    /\ clientResp = [r \in Reqs |-> NothingWritten]
    /\ reqObj = [r \in Reqs |-> FreshRequest]
    /\ logpc = [r \in Reqs |-> "none"]
    /\ sink = <<>>

\* the server calls the handler recorder returned with request r; recorder
\* does not look at the context of a streams request
Arrive(r, streams, cat) ==
    /\ rpc[r] = "idle"
    /\ streams => cat = "missing"
    /\ \A q \in Reqs : q < r => rpc[q] # "idle"
    /\ rpc' = [rpc EXCEPT ![r] = "entered"]
    /\ req' = [req EXCEPT ![r] = [streams |-> streams, category |-> cat]]
    /\ UNCHANGED <<impl, served, respRecorder, clientResp, reqObj, logpc, sink>>

\* recorder, X-Request-Category = "streams": h(w, r) writes to the client
ServeStreams(r, resp) ==
    /\ rpc[r] = "entered"
    /\ req[r].streams
    /\ served' = [served EXCEPT ![r] = @ + 1]
    /\ clientResp' = [clientResp EXCEPT ![r] =
                        [by |-> "handler", code |-> resp.code,
                         headers |-> resp.headers, body |-> resp.body]]
    /\ rpc' = [rpc EXCEPT ![r] = "returned"]
    /\ UNCHANGED <<impl, req, respRecorder, reqObj, logpc, sink>>

\* recorder of the reactivesearch-api version up to the call of h: the
\* category is read from the context and the request is dumped unless the
\* category is ReactiveSearch; either failure is logged and recorder returns
recorderEnterRS(r, dumpFails) ==
    /\ impl = "rsapi"
    /\ rpc[r] = "entered"
    /\ ~req[r].streams
    /\ IF req[r].category = "missing"
       THEN rpc' = [rpc EXCEPT ![r] = "returned"]
       ELSE IF req[r].category # "reactivesearch" /\ dumpFails
       THEN rpc' = [rpc EXCEPT ![r] = "returned"]
       ELSE rpc' = [rpc EXCEPT ![r] = recorderBody[1]]
    /\ UNCHANGED <<impl, req, served, respRecorder, clientResp, reqObj, logpc,
                   sink>>

\* recorder of the arc version up to the call of h: the body is read, a
\* failure is answered with util.WriteBackError(w, .., 500)
recorderEnterArc(r, readFails) ==
    /\ impl = "arc"
    /\ rpc[r] = "entered"
    /\ ~req[r].streams
    /\ IF readFails
       THEN /\ rpc' = [rpc EXCEPT ![r] = "returned"]
            /\ clientResp' = [clientResp EXCEPT ![r] =
                                [by |-> "recorder", code |-> 500,
                                 headers |-> "json",
                                 body |-> "Can't read request body"]]
       ELSE /\ rpc' = [rpc EXCEPT ![r] = recorderBody[1]]
            /\ UNCHANGED clientResp
    /\ UNCHANGED <<impl, req, served, respRecorder, reqObj, logpc, sink>>

\* respRecorder := httptest.NewRecorder(); h(respRecorder, r)
Serve(r, resp) ==
    /\ rpc[r] = "serve"
    /\ served' = [served EXCEPT ![r] = @ + 1]
    /\ respRecorder' = [respRecorder EXCEPT ![r] = resp]
    /\ rpc' = [rpc EXCEPT ![r] = After("serve")]
    /\ UNCHANGED <<impl, req, clientResp, reqObj, logpc, sink>>

\* for k, v := range respRecorder.Header() { w.Header()[k] = v }
CopyHeaders(r) ==
    /\ rpc[r] = "copyHeaders"
    /\ clientResp' = [clientResp EXCEPT ![r].by = "recorder",
                                        ![r].headers = respRecorder[r].headers]
    /\ rpc' = [rpc EXCEPT ![r] = After("copyHeaders")]
    /\ UNCHANGED <<impl, req, served, respRecorder, reqObj, logpc, sink>>

\* a variant of the copy that leaves the status of the client's response at
\* the default of net/http instead of the recorded one
WriteHeaderDefault(r) ==
    /\ rpc[r] = "writeHeader"
    /\ clientResp' = [clientResp EXCEPT ![r].by = "recorder",
                                        ![r].code = 200]
    /\ rpc' = [rpc EXCEPT ![r] = After("writeHeader")]
    /\ UNCHANGED <<impl, req, served, respRecorder, reqObj, logpc, sink>>

\* w.WriteHeader(respRecorder.Code)
WriteHeader(r) ==
    /\ rpc[r] = "writeHeader"
    /\ clientResp' = [clientResp EXCEPT ![r].by = "recorder",
                                        ![r].code = respRecorder[r].code]
    /\ rpc' = [rpc EXCEPT ![r] = After("writeHeader")]
    /\ UNCHANGED <<impl, req, served, respRecorder, reqObj, logpc, sink>>

\* w.Write(respRecorder.Body.Bytes())
WriteBody(r) ==
    /\ rpc[r] = "writeBody"
    /\ clientResp' = [clientResp EXCEPT ![r].by = "recorder",
                                        ![r].body = respRecorder[r].body]
    /\ rpc' = [rpc EXCEPT ![r] = After("writeBody")]
    /\ UNCHANGED <<impl, req, served, respRecorder, reqObj, logpc, sink>>

\* go l.recordResponse(respRecorder, r, ..): the task gets the recorder and
\* the request themselves
Spawn(r) ==
    /\ rpc[r] = "spawn"
    /\ logpc' = [logpc EXCEPT ![r] = "spawned"]
    /\ rpc' = [rpc EXCEPT ![r] = After("spawn")]
    /\ UNCHANGED <<impl, req, served, respRecorder, clientResp, reqObj, sink>>

\* the handler recorder returned is done: net/http completes the response (a
\* handler that wrote nothing gets an empty 200), closes the request body
\* and cancels the request's context
ServerFinish(r) ==
    /\ rpc[r] = "returned"
    /\ rpc' = [rpc EXCEPT ![r] = "finished"]
    /\ reqObj' = [reqObj EXCEPT ![r] = [ctxDone |-> TRUE, bodyClosed |-> TRUE]]
    /\ clientResp' = [clientResp EXCEPT ![r] =
                        IF @.by = "none"
                        THEN [by |-> "server", code |-> 200, headers |-> "",
                              body |-> ""]
                        ELSE @]
    /\ UNCHANGED <<impl, req, served, respRecorder, logpc, sink>>

\* recordResponse up to the record being complete: it reads r.Header,
\* r.Context(), r.URL, r.Method and the recorder; a context without category
\* or without indices (hasIndices) ends the task. Reading the recorded body
\* and marshalling the record do not fail on what the recorder holds
recordResponseBuild(r, hasIndices) ==
    /\ logpc[r] = "spawned"
    /\ IF req[r].category = "missing" \/ ~hasIndices
       THEN logpc' = [logpc EXCEPT ![r] = "aborted"]
       ELSE logpc' = [logpc EXCEPT ![r] = "built"]
    /\ UNCHANGED <<impl, rpc, req, served, respRecorder, clientResp, reqObj,
                   sink>>

\* n, err := l.lumberjack.Write(marshalledLog); an error ends the task
recordResponseWrite(r, sinkFails) ==
    /\ impl = "rsapi"
    /\ logpc[r] = "built"
    /\ IF sinkFails
       THEN /\ logpc' = [logpc EXCEPT ![r] = "aborted"]
            /\ UNCHANGED sink
       ELSE /\ logpc' = [logpc EXCEPT ![r] = "written"]
            /\ sink' = Append(sink, [kind |-> "record", of |-> r])
    /\ UNCHANGED <<impl, rpc, req, served, respRecorder, clientResp, reqObj>>

\* l.lumberjack.Write([]byte("\n"))
recordResponseNewline(r) ==
    /\ impl = "rsapi"
    /\ logpc[r] = "written"
    /\ logpc' = [logpc EXCEPT ![r] = "done"]
    /\ sink' = Append(sink, [kind |-> "newline", of |-> r])
    /\ UNCHANGED <<impl, rpc, req, served, respRecorder, clientResp, reqObj>>

\* the arc version returns once the record is built (the write is commented
\* out)
recordResponseEndArc(r) ==
    /\ impl = "arc"
    /\ logpc[r] = "built"
    /\ logpc' = [logpc EXCEPT ![r] = "done"]
    /\ UNCHANGED <<impl, rpc, req, served, respRecorder, clientResp, reqObj,
                   sink>>

(***************************************************************************)
(* plugins/logs: the middleware chain of the routes of the logs plugin     *)
(***************************************************************************)

\* a variant of list() without the validation of the operation
listNoOperation ==
    <<"classifyCategory", "classify.Op", "classify.Indices",
      "auth.BasicAuth", "validate.Indices", "validate.Category">>

\* a variant of list() that authenticates after the index validation
listAuthLate ==
    <<"classifyCategory", "classify.Op", "classify.Indices",
      "validate.Indices", "auth.BasicAuth", "validate.Operation",
      "validate.Category">>

\* list(): the middleware of the logs routes, in the order of the slice
list ==
    <<"classifyCategory", "classify.Op", "classify.Indices",
      "auth.BasicAuth", "validate.Indices", "validate.Operation",
      "validate.Category">>

\* middleware.Fifo.Adapt(h, m...): the first middleware of the slice is the
\* outermost one, so the stages run in slice order and h runs last
Adapt(h, m) == m \o <<h>>

\* chain.Wrap(h)
Wrap(h) == Adapt(h, list)

Methods == {"GET", "POST", "DELETE"}

\* classify.Op: the operation of a request follows from its method
OpOfMethod(m) ==
    CASE m = "GET" -> Read
      [] m = "POST" -> Write
      [] m = "DELETE" -> Delete

OpsGrants == {{Read}, {Read, Write}, {Read, Write, Delete}}

NoCredential == [known |-> FALSE, admin |-> FALSE, ops |-> {},
                 category |-> FALSE, indices |-> FALSE]

\* what the request's Basic Auth material resolves to: nothing, or a
\* credential with its granted operations and whether it grants the route's
\* category and the target indices
Credentials ==
    {NoCredential} \cup
    [known : {TRUE}, admin : BOOLEAN, ops : OpsGrants, category : BOOLEAN,
     indices : BOOLEAN]

NoContext == [category |-> "", op |-> Noop, indices |-> FALSE,
              credential |-> NoCredential]
NoChainRequest == [method |-> "GET", credential |-> NoCredential]
NoChainResponse == [by |-> "none", code |-> 0, reason |-> ""]

\* the stage a request at position pc of the chain runs next
StageAt(pc) == Wrap("handler")[pc]

ChainInit ==
    /\ chPc = 0
    /\ chReq = NoChainRequest
    /\ chCtx = NoContext
    /\ chTrace = <<>>
    /\ chResp = NoChainResponse

\* a request enters the wrapped handler (the previous one is complete)
ChainArrive(method, cred) ==
    /\ chPc = 0 \/ chResp.by # "none"
    /\ chPc' = 1
    /\ chReq' = [method |-> method, credential |-> cred]
    /\ chCtx' = NoContext
    /\ chTrace' = <<>>
    /\ chResp' = NoChainResponse

\* the stage calls the handler it wraps
Pass(stage) ==
    /\ chTrace' = Append(chTrace, stage)
    /\ chPc' = chPc + 1
    /\ chResp' = chResp

\* the stage writes a terminal response and returns
ShortCircuit(stage, code, reason) ==
    /\ chTrace' = Append(chTrace, stage)
    /\ chPc' = chPc
    /\ chResp' = [by |-> stage, code |-> code, reason |-> reason]
    /\ chCtx' = chCtx

Running(stage) ==
    /\ chPc \in 1..Len(Wrap("handler"))
    /\ chResp.by = "none"
    /\ StageAt(chPc) = stage

\* classifyCategory: category.Logs (category.User in the arc version) is put
\* in the context and h is called
classifyCategory ==
    /\ Running("classifyCategory")
    /\ chCtx' = [chCtx EXCEPT !.category =
                                  IF impl = "rsapi" THEN "logs" ELSE "user"]
    /\ Pass("classifyCategory")
    /\ UNCHANGED chReq

classifyOp ==
    /\ Running("classify.Op")
    /\ chCtx' = [chCtx EXCEPT !.op = OpOfMethod(chReq.method)]
    /\ Pass("classify.Op")
    /\ UNCHANGED chReq

classifyIndices ==
    /\ Running("classify.Indices")
    /\ chCtx' = [chCtx EXCEPT !.indices = TRUE]
    /\ Pass("classify.Indices")
    /\ UNCHANGED chReq

\* auth.BasicAuth: 401 unless the authentication material resolves
BasicAuth ==
    /\ Running("auth.BasicAuth")
    /\ IF chReq.credential.known
       THEN /\ chCtx' = [chCtx EXCEPT !.credential = chReq.credential]
            /\ Pass("auth.BasicAuth")
       ELSE ShortCircuit("auth.BasicAuth", 401, "authentication")
    /\ UNCHANGED chReq

validateIndices ==
    /\ Running("validate.Indices")
    /\ IF chCtx.credential.admin \/ chCtx.credential.indices
       THEN Pass("validate.Indices") /\ UNCHANGED chCtx
       ELSE ShortCircuit("validate.Indices", 403, "index")
    /\ UNCHANGED chReq

validateOperation ==
    /\ Running("validate.Operation")
    /\ IF chCtx.credential.admin \/ chCtx.op \in chCtx.credential.ops
       THEN Pass("validate.Operation") /\ UNCHANGED chCtx
       ELSE ShortCircuit("validate.Operation", 403, "operation")
    /\ UNCHANGED chReq

validateCategory ==
    /\ Running("validate.Category")
    /\ IF chCtx.credential.admin \/ chCtx.credential.category
       THEN Pass("validate.Category") /\ UNCHANGED chCtx
       ELSE ShortCircuit("validate.Category", 403, "category")
    /\ UNCHANGED chReq

\* the handler of the route (the h given to chain.Wrap) serves the request
ChainHandler ==
    /\ Running("handler")
    /\ ShortCircuit("handler", 200, "")
    /\ UNCHANGED chReq

(***************************************************************************)
(* plugins/logs: the bodies stored in the audit record                     *)
(***************************************************************************)

\* number of runs of bytes a body is made of
MaxChunks == 2

\* the ceiling on a logged body, in bytes
BodyCap == 1000000

\* util.Min
Min(a, b) == IF a < b THEN a ELSE b

\* the four bytes "\r\n\r\n"
CRLFCRLF == [b |-> "\r\n\r\n", n |-> 4]

\* a body is a sequence of runs: n bytes that hold no CR or LF ("x"), or the
\* bytes of CRLFCRLF (a run shorter than 4 is a cut separator)
ChunkSizes == {1, BodyCap - 1, BodyCap, BodyCap + 1}
Chunks == {[b |-> "x", n |-> k] : k \in ChunkSizes} \cup {CRLFCRLF}
Bodies == UNION {[1..k -> Chunks] : k \in 0..MaxChunks}

\* len(b)
RECURSIVE BytesLen(_)
BytesLen(b) == IF b = <<>> THEN 0 ELSE Head(b).n + BytesLen(Tail(b))

\* b[:k]
RECURSIVE Slice(_, _)
Slice(b, k) ==
    IF k = 0 \/ b = <<>> THEN <<>>
    ELSE IF Head(b).n <= k THEN <<Head(b)>> \o Slice(Tail(b), k - Head(b).n)
    ELSE <<[b |-> Head(b).b, n |-> k]>>

\* a variant of the truncation that keeps the whole body
TruncateKeepAll(b) == b

\* b[:util.Min(len(b), 1000000)]
Truncate(b) == Slice(b, Min(BytesLen(b), BodyCap))

\* strings.Split(s, "\r\n\r\n")
RECURSIVE SplitCRLFCRLF(_)
SplitCRLFCRLF(s) ==
    IF s = <<>> THEN << <<>> >>
    ELSE LET rest == SplitCRLFCRLF(Tail(s)) IN
         IF Head(s) = CRLFCRLF THEN << <<>> >> \o rest
         ELSE << <<Head(s)>> \o Head(rest) >> \o Tail(rest)

\* httputil.DumpRequest(r, true): the request line and the headers, an empty
\* line, then the body
DumpRequest(body) == <<[b |-> "x", n |-> 1], CRLFCRLF>> \o body

\* json.Marshal(rsRequestBody): the query found in the context, encoded again
\* (taken to give the bytes of the request back), or null when the context
\* holds none
MarshalContextBody(body, found) ==
    IF found THEN body ELSE <<[b |-> "x", n |-> Len(JsonNull)]>>

BodyCategories == CtxCategories \ {"missing"}

NoBodies == [category |-> "search", reqBody |-> <<>>, dump |-> <<>>,
             respBody |-> <<>>]
NoBodyRecord == [req |-> <<>>, resp |-> <<>>]

BodyInit ==
    /\ bodyPc = "idle"
    /\ bodyIn = NoBodies
    /\ bodyRec = NoBodyRecord

\* recorder up to the call of h. The arc version reads the body and fills
\* request.Body; the other version dumps the request unless the category is
\* ReactiveSearch
recorderReadBody(cat, body) ==
    /\ bodyPc = "idle"
    /\ bodyIn' = [category |-> cat, reqBody |-> body,
                  dump |-> IF impl = "rsapi" /\ cat # "reactivesearch"
                           THEN DumpRequest(body) ELSE <<>>,
                  respBody |-> <<>>]
    /\ bodyRec' = [req |-> IF impl = "arc" THEN Truncate(body) ELSE <<>>,
                   resp |-> <<>>]
    /\ bodyPc' = "serve"

\* h(respRecorder, r): the handler writes its response body to the recorder
handlerWritesBody(body) ==
    /\ bodyPc = "serve"
    /\ bodyIn' = [bodyIn EXCEPT !.respBody = body]
    /\ bodyPc' = "spawned"
    /\ UNCHANGED bodyRec

\* recordResponse of the arc version: rec.Request = *request, then the
\* response body
recordResponseArc ==
    /\ impl = "arc"
    /\ bodyPc = "spawned"
    /\ bodyRec' = [bodyRec EXCEPT !.resp = Truncate(bodyIn.respBody)]
    /\ bodyPc' = "recorded"
    /\ UNCHANGED bodyIn

\* recordResponse, the branch of category.ReactiveSearch
recordResponseReactiveSearch(found) ==
    /\ impl = "rsapi"
    /\ bodyPc = "spawned"
    /\ bodyIn.category = "reactivesearch"
    /\ bodyRec' = [req |-> Truncate(MarshalContextBody(bodyIn.reqBody, found)),
                   resp |-> Truncate(bodyIn.respBody)]
    /\ bodyPc' = "recorded"
    /\ UNCHANGED bodyIn

\* recordResponse, the branch of every other category
recordResponseOther ==
    /\ impl = "rsapi"
    /\ bodyPc = "spawned"
    /\ bodyIn.category # "reactivesearch"
    /\ LET requestBody == SplitCRLFCRLF(bodyIn.dump)
           parsedBody == IF Len(requestBody) > 1 THEN requestBody[2]
                         ELSE <<>>
       IN bodyRec' = [req |-> Truncate(parsedBody),
                      resp |-> Truncate(bodyIn.respBody)]
    /\ bodyPc' = "recorded"
    /\ UNCHANGED bodyIn

(***************************************************************************)
(* plugins/logs/logs.go: Instance()                                        *)
(***************************************************************************)

\* number of calls of Instance(), by any goroutines
MaxCalls == 3

Calls == 1..MaxCalls

\* a nil *Logs; the instances allocated by &Logs{} are numbered from 1
NilLogs == 0

NoResult == [inst |-> NilLogs, slow |-> FALSE]

OnceInit ==
    /\ instPc = [c \in Calls |-> "idle"]
    /\ instRes = [c \in Calls |-> NoResult]
    /\ onceDone = FALSE
    /\ onceM = 0
    /\ singleton = NilLogs
    /\ allocated = 0

\* once.Do(f), fast path: a call that loads done = 1 does not take the lock
onceDo(c) ==
    /\ instPc[c] = "idle"
    /\ instPc' = [instPc EXCEPT ![c] = IF onceDone THEN "return" ELSE "lock"]
    /\ UNCHANGED <<instRes, onceDone, onceM, singleton, allocated>>

\* once.Do(f), slow path: o.m.Lock()
onceLock(c) ==
    /\ instPc[c] = "lock"
    /\ onceM = 0
    /\ onceM' = c
    /\ instPc' = [instPc EXCEPT ![c] = "locked"]
    /\ instRes' = [instRes EXCEPT ![c].slow = TRUE]
    /\ UNCHANGED <<onceDone, singleton, allocated>>

\* a variant of the slow path that runs f whatever done holds
onceDoSlowAlways(c) ==
    /\ instPc[c] = "locked"
    /\ allocated' = allocated + 1
    /\ singleton' = allocated + 1
    /\ onceDone' = TRUE
    /\ instPc' = [instPc EXCEPT ![c] = "unlock"]
    /\ UNCHANGED <<instRes, onceM>>

\* once.Do(f), slow path with the lock held: if done is still 0, run
\* f = func() { singleton = &Logs{} } and store done = 1
onceDoSlow(c) ==
    /\ instPc[c] = "locked"
    /\ IF onceDone
       THEN UNCHANGED <<allocated, singleton, onceDone>>
       ELSE /\ allocated' = allocated + 1
            /\ singleton' = allocated + 1
            /\ onceDone' = TRUE
    /\ instPc' = [instPc EXCEPT ![c] = "unlock"]
    /\ UNCHANGED <<instRes, onceM>>

\* once.Do(f), slow path: o.m.Unlock()
onceUnlock(c) ==
    /\ instPc[c] = "unlock"
    /\ onceM' = 0
    /\ instPc' = [instPc EXCEPT ![c] = "return"]
    /\ UNCHANGED <<instRes, onceDone, singleton, allocated>>

\* return singleton
Instance(c) ==
    /\ instPc[c] = "return"
    /\ instRes' = [instRes EXCEPT ![c].inst = singleton]
    /\ instPc' = [instPc EXCEPT ![c] = "returned"]
    /\ UNCHANGED <<onceDone, onceM, singleton, allocated>>

(***************************************************************************)
(* plugins/users (dao): newClient, hashPasswords, postMasterUser           *)
(***************************************************************************)

\* number of users registered before the plugin starts
MaxUsers == 11

\* number of hits of a search that does not set a size
SearchSize == 10

\* usernames: foo is the default master user, the others are registered users
foo == 0
UserIds == 0..MaxUsers

\* the plaintext "bar" of the default master user; the plaintext of every
\* other user is numbered like the user
bar == 0

\* a stored password: a plaintext, the bcrypt hash of a plaintext, or ""
PlainPassword(p) == [enc |-> "plain", of |-> p]
BcryptHash(p) == [enc |-> "bcrypt", of |-> p]
EmptyString == [enc |-> "", of |-> 0]

\* bcrypt.GenerateFromPassword(password, bcrypt.DefaultCost)
GenerateFromPassword(password, fails) ==
    IF fails THEN [hash |-> EmptyString, err |-> TRUE]
    ELSE [hash |-> BcryptHash(password.of), err |-> FALSE]

NoUser == [present |-> FALSE, password |-> EmptyString,
           password_hash_type |-> "", is_admin |-> FALSE]

\* a user document
UserDoc(password, hashType, admin) ==
    [present |-> TRUE, password |-> password, password_hash_type |-> hashType,
     is_admin |-> admin]

\* environment of the process: USERNAME and PASSWORD unset, or set to the
\* name of the first registered user and a password of its own
Envs == {[USERNAME |-> foo, PASSWORD |-> bar, set |-> FALSE],
         [USERNAME |-> 1, PASSWORD |-> MaxUsers + 1, set |-> TRUE]}

\* stands for no user where a failing call is named by its user
NoOne == 0 - 1

NoRun == [ran |-> FALSE, err |-> FALSE, panic |-> FALSE,
          before |-> [u \in UserIds |-> NoUser]]
NoClient == [es |-> FALSE, err |-> FALSE, panic |-> FALSE, master |-> foo,
             PASSWORD |-> bar]

UsersInit ==
    /\ uPc = "down"
    /\ uExists = FALSE
    /\ uDocs = [u \in UserIds |-> NoUser]
    /\ hpRes = NoRun
    /\ uRes = NoClient

Present(store) == {u \in UserIds : store[u].present}

\* an earlier start of the plugin created the index and, when its
\* postMasterUser succeeded, the default master user
earlierStart(withMaster) ==
    /\ uPc = "down"
    /\ ~uExists
    /\ uExists' = TRUE
    /\ uDocs' = IF withMaster
                THEN [uDocs EXCEPT ![foo] =
                        UserDoc(BcryptHash(bar), "bcrypt", TRUE)]
                ELSE uDocs
    /\ UNCHANGED <<uPc, hpRes, uRes>>

\* postUser by the routes of the plugin before this start: user u is stored
\* with a hashed password, or with a plaintext and no hash type. Users are
\* registered in the order of their names, the hashed ones first
postUser(u, hashed) ==
    /\ uPc = "down"
    /\ uExists
    /\ u \in 1..MaxUsers
    /\ ~uDocs[u].present
    /\ \A v \in 1..(u - 1) :
          uDocs[v].present /\ (hashed => uDocs[v].password_hash_type # "")
    /\ uDocs' = [uDocs EXCEPT ![u] =
                    IF hashed THEN UserDoc(BcryptHash(u), "bcrypt", FALSE)
                    ELSE UserDoc(PlainPassword(u), "", FALSE)]
    /\ UNCHANGED <<uPc, uExists, hpRes, uRes>>

\* newClient up to the branch on the existence of the index. A failure of
\* elastic.NewClient returns before the deferred call is registered; a
\* failure of IndexExists returns with it registered
newClient(clientFails, existsFails) ==
    /\ uPc = "down"
    /\ IF clientFails
       THEN /\ uPc' = "returned"
            /\ uRes' = [uRes EXCEPT !.err = TRUE]
       ELSE IF existsFails
       THEN /\ uPc' = "deferred"
            /\ uRes' = [uRes EXCEPT !.err = TRUE]
       ELSE /\ uPc' = IF uExists THEN "hashPasswords" ELSE "createIndex"
            /\ UNCHANGED uRes
    /\ UNCHANGED <<uExists, uDocs, hpRes>>

\* getRawUsers: the hits of a search over the index that sets no size
getRawUsers(store) ==
    IF Cardinality(Present(store)) <= SearchSize THEN {Present(store)}
    ELSE {hits \in SUBSET Present(store) : Cardinality(hits) = SearchSize}

\* patchUser(ctx, username, patch)
patchUser(store, username, password, hashType) ==
    [store EXCEPT ![username].password = password,
                  ![username].password_hash_type = hashType]

\* for _, user := range users { ... } of hashPasswords: a user with a hash
\* type is skipped; a failure of bcrypt is logged and the empty hash is
\* patched in; a failure of patchUser ends the loop with the error
RECURSIVE hashLoop(_, _, _, _)
hashLoop(store, users, bcryptFailsFor, patchFailsFor) ==
    IF users = {} THEN [store |-> store, err |-> FALSE]
    ELSE LET user == CHOOSE u \in users : \A v \in users : u <= v
             hashed == GenerateFromPassword(store[user].password,
                                            user = bcryptFailsFor)
         IN IF store[user].password_hash_type # ""
            THEN hashLoop(store, users \ {user}, bcryptFailsFor,
                          patchFailsFor)
            ELSE IF user = patchFailsFor THEN [store |-> store, err |-> TRUE]
            ELSE hashLoop(patchUser(store, user, hashed.hash, "bcrypt"),
                          users \ {user}, bcryptFailsFor, patchFailsFor)

\* es.hashPasswords() in newClient, the index exists. A failed search leaves
\* response nil: getRawUsers ignores err and dereferences it
hashPasswords(searchFails, hits, bcryptFailsFor, patchFailsFor) ==
    /\ uPc = "hashPasswords"
    /\ IF searchFails
       THEN /\ hpRes' = [ran |-> TRUE, err |-> FALSE, panic |-> TRUE,
                         before |-> uDocs]
            /\ uRes' = [uRes EXCEPT !.panic = TRUE]
            /\ UNCHANGED uDocs
       ELSE LET out == hashLoop(uDocs, hits, bcryptFailsFor, patchFailsFor)
            IN /\ uDocs' = out.store
               /\ hpRes' = [ran |-> TRUE, err |-> out.err, panic |-> FALSE,
                            before |-> uDocs]
               /\ uRes' = [uRes EXCEPT !.err = out.err, !.es = ~out.err]
    /\ uPc' = "deferred"
    /\ UNCHANGED uExists

\* newClient, the index does not exist: getTotalNodes, then CreateIndex
createIndex(nodesFails, createFails) ==
    /\ uPc = "createIndex"
    /\ IF nodesFails \/ createFails
       THEN /\ uRes' = [uRes EXCEPT !.err = TRUE]
            /\ UNCHANGED uExists
       ELSE /\ uRes' = [uRes EXCEPT !.es = TRUE]
            /\ uExists' = TRUE
    /\ uPc' = "deferred"
    /\ UNCHANGED <<uDocs, hpRes>>

\* the deferred call of newClient: es.postMasterUser(), whose error is
\* logged. A failure of bcrypt is logged too and the admin is posted with the
\* empty hash; postUser indexes the document under the username
postMasterUser(env, bcryptFails, postFails) ==
    /\ uPc = "deferred"
    /\ LET hashed == GenerateFromPassword(PlainPassword(env.PASSWORD),
                                          bcryptFails)
       IN IF postFails
          THEN UNCHANGED <<uDocs, uExists>>
          ELSE /\ uDocs' = [uDocs EXCEPT ![env.USERNAME] =
                              UserDoc(hashed.hash, "bcrypt", TRUE)]
               /\ uExists' = TRUE
    /\ uRes' = [uRes EXCEPT !.master = env.USERNAME,
                            !.PASSWORD = env.PASSWORD]
    /\ uPc' = "returned"
    /\ UNCHANGED hpRes

(***************************************************************************)
(* Resolution of a credential and the time-to-live of a Permission         *)
(***************************************************************************)

\* last instant of the clock
MaxClock == 3

\* longest time-to-live given to a Permission
MaxTtl == 1

NoStamp == [created_at |-> 0, ttl |-> 0]
NoResolution == [username |-> "", at |-> 0, outcome |-> "none",
                 indices |-> {}, created_at |-> 0, ttl |-> 0]

TtlInit ==
    /\ clock = 0
    /\ tStore = EmptyStore
    /\ tStamp = [u \in Usernames |-> NoStamp]
    /\ resolved = NoResolution

\* time passes
Tick ==
    /\ clock < MaxClock
    /\ clock' = clock + 1
    /\ UNCHANGED <<tStore, tStamp, resolved>>

\* a User named username is stored and searchable
createUser(username) ==
    /\ SearchHits(tStore, username) = {}
    /\ tStore' = WithDoc(tStore, userIndex, username, 1, "ok")
    /\ UNCHANGED <<clock, tStamp, resolved>>

\* a Permission is created now with the given ttl, stored and searchable
createPermission(username, ttl) ==
    /\ SearchHits(tStore, username) = {}
    /\ tStore' = WithDoc(tStore, permissionIndex, username, 1, "ok")
    /\ tStamp' = [tStamp EXCEPT ![username] =
                     [created_at |-> clock, ttl |-> ttl]]
    /\ UNCHANGED <<clock, resolved>>

\* a Permission is invalid once now > created_at + ttl
IsExpired(stamp, now) == now > stamp.created_at + stamp.ttl

\* the resolver: getCredential, then the validity of a Permission
resolve(username) ==
    /\ LET got == getCredentialResult(tStore, username, FALSE)
           outcome ==
               IF got.err # "" THEN "StoreUnavailable"
               ELSE IF got.cred.kind = "nil" THEN "NotFound"
               ELSE IF got.cred.kind = permissionIndex
                       /\ IsExpired(tStamp[username], clock)
               THEN "CredentialExpired"
               ELSE "Resolved"
       IN resolved' = [username |-> username, at |-> clock,
                       outcome |-> outcome,
                       indices |-> SearchHits(tStore, username),
                       created_at |-> tStamp[username].created_at,
                       ttl |-> tStamp[username].ttl]
    /\ UNCHANGED <<clock, tStore, tStamp>>

(***************************************************************************)
(* Rate limiter: quota buckets keyed by (credential, Category)             *)
(***************************************************************************)

\* number of requests of a run
MaxBurst == 3

\* largest configured limit of a window
MaxLimit == 2

\* number of windows after the first
MaxWindows == 1

Burst == 1..MaxBurst

\* the keys of the buckets: (credential identity, Category)
LimitKeys == {<<"alice", "search">>, <<"alice", "docs">>}

NoLimitRequest == [key |-> <<"", "">>, state |-> "idle", window |-> 0]

LimiterInit ==
    /\ limit = 0
    /\ bucket = [k \in LimitKeys |-> 0]
    /\ window = 0
    /\ lreq = [r \in Burst |-> NoLimitRequest]

\* the limit map of the credential gives l requests per window
configure(l) ==
    /\ limit = 0
    /\ limit' = l
    /\ bucket' = [k \in LimitKeys |-> l]
    /\ UNCHANGED <<window, lreq>>

\* request r reaches the limiter with key k
limiterArrive(r, k) ==
    /\ limit > 0
    /\ lreq[r].state = "idle"
    /\ \A q \in Burst : q < r => lreq[q].state # "idle"
    /\ lreq' = [lreq EXCEPT ![r] = [key |-> k, state |-> "waiting",
                                    window |-> window]]
    /\ UNCHANGED <<limit, bucket, window>>

\* a variant of the check that lets the request pass without a debit
checkNoDebit(r) ==
    /\ lreq[r].state = "waiting"
    /\ lreq' = [lreq EXCEPT ![r].state = IF bucket[lreq[r].key] > 0
                                         THEN "allowed" ELSE "limited",
                            ![r].window = window]
    /\ UNCHANGED <<limit, bucket, window>>

\* the atomic check-and-decrement of the bucket of the request's key: a
\* request over the quota is rate limited and leaves the bucket as it is
checkAndDecrement(r) ==
    /\ lreq[r].state = "waiting"
    /\ IF bucket[lreq[r].key] > 0
       THEN /\ bucket' = [bucket EXCEPT ![lreq[r].key] = @ - 1]
            /\ lreq' = [lreq EXCEPT ![r].state = "allowed",
                                    ![r].window = window]
       ELSE /\ bucket' = bucket
            /\ lreq' = [lreq EXCEPT ![r].state = "limited",
                                    ![r].window = window]
    /\ UNCHANGED <<limit, window>>

\* the window ends: every bucket is full again
nextWindow ==
    /\ limit > 0
    /\ window < MaxWindows
    /\ window' = window + 1
    /\ bucket' = [k \in LimitKeys |-> limit]
    /\ UNCHANGED <<limit, lreq>>

(***************************************************************************)
(* plugins/logs (dao): rolloverIndexJob                                    *)
(***************************************************************************)

\* number of runs of the job
MaxRuns == 4

\* digits of the number in the name of the first index, `${alias}-000001`;
\* a rollover names the new index with the next number, padded alike
PadWidth == 6

\* the number of indices the job preserves
Preserved == 2

\* the first number that does not fit the padding
RECURSIVE Pow10(_)
Pow10(k) == IF k = 0 THEN 1 ELSE 10 * Pow10(k - 1)

\* the decimal digits of n
RECURSIVE Digits(_)
Digits(n) == IF n < 10 THEN <<n>> ELSE Digits(n \div 10) \o <<n % 10>>

\* the name of index number n, without the prefix `${alias}-`
RECURSIVE PadLeft(_)
PadLeft(d) == IF Len(d) >= PadWidth THEN d ELSE PadLeft(<<0>> \o d)
IndexName(n) == PadLeft(Digits(n))

\* a < b for strings
RECURSIVE StringLess(_, _)
StringLess(a, b) ==
    IF b = <<>> THEN FALSE
    ELSE IF a = <<>> THEN TRUE
    ELSE IF Head(a) # Head(b) THEN Head(a) < Head(b)
    ELSE StringLess(Tail(a), Tail(b))

\* sort.Strings
RECURSIVE SortStrings(_)
SortStrings(names) ==
    IF names = {} THEN <<>>
    ELSE LET first == CHOOSE x \in names :
                         \A y \in names \ {x} : StringLess(x, y)
         IN <<first>> \o SortStrings(names \ {first})

\* the elements of a sequence
Range(s) == {s[i] : i \in 1..Len(s)}

NoJob == [ran |-> FALSE, rolloverFails |-> FALSE, panic |-> FALSE,
          listFails |-> FALSE, deleteFails |-> FALSE, rolledOver |-> FALSE,
          found |-> {}]

RolloverInit ==
    /\ logIndices = {1}
    /\ jobRuns = 0
    /\ job = NoJob

\* the write index of the alias: the index the last rollover created
WriteIndex(indices) == CHOOSE n \in indices : \A m \in indices : m <= n

\* the job has run every midnight and kept two indices, up to the last
\* numbers that fit the padding
manyRollovers ==
    /\ jobRuns = 0
    /\ logIndices = {1}
    /\ logIndices' = {Pow10(PadWidth) - 2, Pow10(PadWidth) - 1}
    /\ UNCHANGED <<jobRuns, job>>

\* the indices the job deletes when CatIndices lists the given names
toDelete(names) ==
    IF Cardinality(names) > Preserved
    THEN LET rolloverIndices == SortStrings(names)
         IN Range(SubSeq(rolloverIndices, 1,
                         Len(rolloverIndices) - Preserved))
    ELSE {}

\* rolloverIndexJob(alias). A failed rollover leaves rolloverService nil and
\* the job dereferences it; a rollover whose conditions are met creates the
\* index with the next number; a failed listing leaves indices empty; a
\* failed delete is logged
rolloverIndexJob(rolloverFails, rolledOver, listFails, deleteFails) ==
    /\ jobRuns < MaxRuns
    /\ jobRuns' = jobRuns + 1
    /\ IF rolloverFails
       THEN /\ job' = [ran |-> TRUE, rolloverFails |-> TRUE,
                       panic |-> TRUE, listFails |-> FALSE,
                       deleteFails |-> FALSE, rolledOver |-> FALSE,
                       found |-> logIndices]
            /\ UNCHANGED logIndices
       ELSE LET found == IF rolledOver
                         THEN logIndices \cup {WriteIndex(logIndices) + 1}
                         ELSE logIndices
                indices == IF listFails THEN {}
                           ELSE {IndexName(n) : n \in found}
                deleted == IF deleteFails THEN {} ELSE toDelete(indices)
            IN /\ logIndices' = {n \in found : IndexName(n) \notin deleted}
               /\ job' = [ran |-> TRUE, rolloverFails |-> FALSE,
                          panic |-> FALSE, listFails |-> listFails,
                          deleteFails |-> deleteFails,
                          rolledOver |-> rolledOver, found |-> found]

(***************************************************************************)
(* Specifications                                                          *)
(***************************************************************************)

Init ==
    /\ OpInit /\ AuthInit /\ RecInit /\ ChainInit
    /\ BodyInit /\ OnceInit /\ UsersInit /\ TtlInit /\ LimiterInit
    /\ RolloverInit

\* the codec and the dao are those of the arc version
InitArc == Init /\ impl = "arc"

NextChain ==
    \/ \E m \in Methods, c \in Credentials :
          ChainArrive(m, c) /\ UNCHANGED exceptChain
    \/ classifyCategory /\ UNCHANGED exceptChain
    \/ classifyOp /\ UNCHANGED exceptChain
    \/ classifyIndices /\ UNCHANGED exceptChain
    \/ BasicAuth /\ UNCHANGED exceptChain
    \/ validateIndices /\ UNCHANGED exceptChain
    \/ validateOperation /\ UNCHANGED exceptChain
    \/ validateCategory /\ UNCHANGED exceptChain
    \/ ChainHandler /\ UNCHANGED exceptChain

SpecChain == Init /\ [][NextChain]_vars

NextRec ==
    \/ \E r \in Reqs, st \in BOOLEAN, c \in CtxCategories :
          Arrive(r, st, c) /\ UNCHANGED exceptRec
    \/ \E r \in Reqs, resp \in HandlerResponses :
          ServeStreams(r, resp) /\ UNCHANGED exceptRec
    \/ \E r \in Reqs, f \in BOOLEAN :
          recorderEnterRS(r, f) /\ UNCHANGED exceptRec
    \/ \E r \in Reqs, f \in BOOLEAN :
          recorderEnterArc(r, f) /\ UNCHANGED exceptRec
    \/ \E r \in Reqs, resp \in HandlerResponses :
          Serve(r, resp) /\ UNCHANGED exceptRec
    \/ \E r \in Reqs : CopyHeaders(r)
          /\ UNCHANGED exceptRec
    \/ \E r \in Reqs : WriteHeader(r)
          /\ UNCHANGED exceptRec
    \/ \E r \in Reqs : WriteBody(r) /\ UNCHANGED exceptRec
    \/ \E r \in Reqs : Spawn(r) /\ UNCHANGED exceptRec
    \/ \E r \in Reqs : ServerFinish(r)
          /\ UNCHANGED exceptRec
    \/ \E r \in Reqs, i \in BOOLEAN :
          recordResponseBuild(r, i) /\ UNCHANGED exceptRec
    \/ \E r \in Reqs, f \in BOOLEAN :
          recordResponseWrite(r, f) /\ UNCHANGED exceptRec
    \/ \E r \in Reqs : recordResponseNewline(r)
          /\ UNCHANGED exceptRec
    \/ \E r \in Reqs : recordResponseEndArc(r)
          /\ UNCHANGED exceptRec

SpecRec == Init /\ [][NextRec]_vars

NextOp ==
    \/ \E v \in OpValues : OpMarshal(v)
          /\ UNCHANGED exceptOp
    \/ \E t \in OpValues : OpRoundTrip(t)
          /\ UNCHANGED exceptOp
    \/ \E b \in OpInputs, t \in OpValues :
          OpUnmarshal(b, t) /\ UNCHANGED exceptOp

SpecOp == InitArc /\ [][NextOp]_vars

NextAuth ==
    \/ \E u \in Usernames, v \in 1..MaxVer, f \in BOOLEAN :
          putUser(u, v, f) /\ UNCHANGED exceptAuth
    \/ \E u \in Usernames, v \in 1..MaxVer, f \in BOOLEAN :
          putPermission(u, v, f) /\ UNCHANGED exceptAuth
    \/ \E u \in Usernames, f \in BOOLEAN : getUser(u, f)
          /\ UNCHANGED exceptAuth
    \/ \E u \in Usernames, f \in BOOLEAN : getPermission(u, f)
          /\ UNCHANGED exceptAuth
    \/ \E u \in Usernames, f \in BOOLEAN : getCredential(u, f)
          /\ UNCHANGED exceptAuth
    \/ Refresh /\ UNCHANGED exceptAuth
    \/ \E i \in AuthIndices, u \in Usernames, s \in SourceShapes :
          ExternalIndex(i, u, s) /\ UNCHANGED exceptAuth

SpecAuth == InitArc /\ [][NextAuth]_vars

NextBody ==
    \/ \E c \in BodyCategories, b \in Bodies :
          recorderReadBody(c, b) /\ UNCHANGED exceptBody
    \/ \E b \in Bodies : handlerWritesBody(b) /\ UNCHANGED exceptBody
    \/ recordResponseArc /\ UNCHANGED exceptBody
    \/ \E f \in BOOLEAN :
          recordResponseReactiveSearch(f) /\ UNCHANGED exceptBody
    \/ recordResponseOther /\ UNCHANGED exceptBody

SpecBody == Init /\ [][NextBody]_vars

NextOnce ==
    \/ \E c \in Calls : onceDo(c) /\ UNCHANGED exceptOnce
    \/ \E c \in Calls : onceLock(c) /\ UNCHANGED exceptOnce
    \/ \E c \in Calls : onceDoSlow(c) /\ UNCHANGED exceptOnce
    \/ \E c \in Calls : onceUnlock(c) /\ UNCHANGED exceptOnce
    \/ \E c \in Calls : Instance(c) /\ UNCHANGED exceptOnce

SpecOnce == InitArc /\ [][NextOnce]_vars

NextUsers ==
    \/ \E m \in BOOLEAN : earlierStart(m) /\ UNCHANGED exceptUsers
    \/ \E u \in UserIds, h \in BOOLEAN :
          postUser(u, h) /\ UNCHANGED exceptUsers
    \/ \E c, e \in BOOLEAN : newClient(c, e) /\ UNCHANGED exceptUsers
    \/ /\ uPc = "hashPasswords"
       /\ \E hits \in getRawUsers(uDocs) :
             \E b, p \in hits \cup {NoOne} :
                hashPasswords(FALSE, hits, b, p) /\ UNCHANGED exceptUsers
    \/ hashPasswords(TRUE, {}, NoOne, NoOne) /\ UNCHANGED exceptUsers
    \/ \E n, c \in BOOLEAN : createIndex(n, c) /\ UNCHANGED exceptUsers
    \/ \E env \in Envs, b, p \in BOOLEAN :
          postMasterUser(env, b, p) /\ UNCHANGED exceptUsers

SpecUsers == InitArc /\ [][NextUsers]_vars

NextTtl ==
    \/ Tick /\ UNCHANGED exceptTtl
    \/ \E u \in Usernames : createUser(u) /\ UNCHANGED exceptTtl
    \/ \E u \in Usernames, t \in 0..MaxTtl :
          createPermission(u, t) /\ UNCHANGED exceptTtl
    \/ \E u \in Usernames : resolve(u) /\ UNCHANGED exceptTtl

SpecTtl == InitArc /\ [][NextTtl]_vars

NextLimiter ==
    \/ \E l \in 1..MaxLimit : configure(l) /\ UNCHANGED exceptLimiter
    \/ \E r \in Burst, k \in LimitKeys :
          limiterArrive(r, k) /\ UNCHANGED exceptLimiter
    \/ \E r \in Burst : checkAndDecrement(r) /\ UNCHANGED exceptLimiter
    \/ nextWindow /\ UNCHANGED exceptLimiter

SpecLimiter == InitArc /\ [][NextLimiter]_vars

NextRollover ==
    \/ manyRollovers /\ UNCHANGED exceptRollover
    \/ \E f, r, l, d \in BOOLEAN :
          rolloverIndexJob(f, r, l, d) /\ UNCHANGED exceptRollover

SpecRollover == InitArc /\ [][NextRollover]_vars

(***************************************************************************)
(* Operation codec properties                                              *)
(***************************************************************************)

IsLowercase(s) == Len(s) > 0 /\ \A i \in 1..Len(s) : s[i] \in LowerChars

\* C1: for every Operation value in {Noop, Read, Write, Delete}, MarshalJSON
\* followed by UnmarshalJSON succeeds and yields the original value whatever
\* the target held before, and the four serialized tokens are pairwise
\* distinct lowercase strings.
C1_RoundTrip ==
    /\ (opPc = "marshalled" /\ opSrc \in DefinedOps) =>
          /\ ~opErr
          /\ opBytes = JsonMarshalString(String(opSrc))
          /\ IsLowercase(String(opSrc))
    /\ (opPc = "roundtrip" /\ opSrc \in DefinedOps) =>
          /\ ~opErr
          /\ opTarget = opSrc
    /\ \A a, b \in DefinedOps :
          a # b => MarshalJSON(a).bytes # MarshalJSON(b).bytes

C1_Witness ==
    /\ opPc = "roundtrip"
    /\ opSrc = Write
    /\ opPrev = Delete
    /\ opTarget = Write
    /\ ~opErr

\* C2: UnmarshalJSON of a string token other than "noop", "read", "write",
\* "delete" returns an error and leaves the target unchanged (never Noop as
\* a default); MarshalJSON of a value outside the four defined ones returns
\* an error.
C2_UnknownRejected ==
    /\ ( /\ opPc = "unmarshalled"
         /\ ~JsonUnmarshalString(opBytes).err
         /\ JsonUnmarshalString(opBytes).s \notin KnownTokens ) =>
          /\ opErr
          /\ opTarget = opPrev
    /\ (opPc = "marshalled" /\ opSrc \notin DefinedOps) => opErr

C2_Witness ==
    /\ opPc = "unmarshalled"
    /\ opBytes = JsonMarshalString(<<"R","e","a","d">>)
    /\ opPrev = Write
    /\ opTarget = Write
    /\ opErr

(***************************************************************************)
(* Credential store properties                                             *)
(***************************************************************************)

\* the last dao call was getCredential and its store call did not fail
Resolved == authCall.op = "getCredential" /\ authCall.err # "store"

UserCredOf(username, view) == DecodeHit(view, userIndex, username)

C4_UserFirst ==
    ( /\ Resolved
      /\ DocAt(authCall.seen, userIndex, authCall.username).src = "ok" ) =>
        authCall.cred = UserCredOf(authCall.username, authCall.seen)

\* C4 amended: getCredential runs one search over both indices. It resolves
\* to the User when the User record is the only searchable record with the
\* username, returns an error and no credential when a Permission record
\* with the same username is searchable too, and resolves to a Permission
\* only if no User record with that username is searchable.
C4_SingleSearch ==
    Resolved =>
        LET u == authCall.username
            hits == SearchHits(authCall.seen, u) IN
        /\ ( /\ hits = {userIndex}
             /\ DocAt(authCall.seen, userIndex, u).src = "ok" ) =>
              /\ authCall.err = ""
              /\ authCall.cred = UserCredOf(u, authCall.seen)
        /\ hits = AuthIndices =>
              /\ authCall.err = "ambiguous"
              /\ authCall.cred = NilCred
        /\ authCall.cred.kind = permissionIndex => userIndex \notin hits

C4_Witness ==
    /\ Resolved
    /\ SearchHits(authCall.seen, authCall.username) = AuthIndices
    /\ DocAt(authCall.seen, userIndex, authCall.username).src = "ok"
    /\ authCall.err = "ambiguous"

\* C5: when no record in the store matches the username, getCredential
\* never reports success (nil error) together with an absent credential.
C5_NotFoundIsError ==
    ( /\ Resolved
      /\ SearchHits(authCall.seen, authCall.username) = {}
      /\ SearchHits(authCall.stored, authCall.username) = {} ) =>
        ~(authCall.err = "" /\ authCall.cred = NilCred)

\* the record a read returns for the put that immediately preceded it
PutCred == [kind |-> readAfter.index, username |-> readAfter.username,
            ver |-> readAfter.ver]

\* the last dao call read the username written by the put just before it,
\* the store call did not fail, and the record just written is the only one
\* stored under that username
ReadAfterPut(ops) ==
    /\ readAfter # NoPut
    /\ authCall.op \in ops
    /\ authCall.username = readAfter.username
    /\ authCall.err # "store"
    /\ SearchHits(authCall.stored, authCall.username) = {readAfter.index}

\* C6: after putPermission / putUser returned ok, an immediately following
\* read of that username, by id (getUser / getPermission) or by search
\* (getCredential), returns the record just written.
C6_ReadAfterWrite ==
    /\ ReadAfterPut({"getCredential"}) => authCall.cred = PutCred
    /\ (ReadAfterPut({"getUser"}) /\ readAfter.index = userIndex) =>
          authCall.cred = PutCred
    /\ (ReadAfterPut({"getPermission"}) /\ readAfter.index = permissionIndex) =>
          authCall.cred = PutCred

\* the part of C6 that reads by id
C6_GetByIdAfterPut ==
    /\ (ReadAfterPut({"getUser"}) /\ readAfter.index = userIndex) =>
          authCall.cred = PutCred
    /\ (ReadAfterPut({"getPermission"}) /\ readAfter.index = permissionIndex) =>
          authCall.cred = PutCred

(***************************************************************************)
(* Recorder properties                                                     *)
(***************************************************************************)

\* recorder has returned for request r
Returned(r) == rpc[r] \in {"returned", "finished"}

\* C7: whenever recorder has returned without invoking its wrapped handler,
\* it has written a terminal response to the client (and the handler, i.e.
\* every later stage, has not run); this covers a missing category and a
\* failed request dump / body read.
C7_ShortCircuitResponds ==
    \A r \in Reqs :
        (Returned(r) /\ served[r] = 0) => clientResp[r].by = "recorder"

\* the part of C7 that holds: a request recorder gave up on never reaches
\* the wrapped handler
C7_NoLaterStage ==
    \A r \in Reqs :
        (Returned(r) /\ clientResp[r].by \in {"none", "server"}) =>
            served[r] = 0

\* C9: when the audit-log task of a request has been started, the complete
\* response (headers, status code, body) the handler produced has been
\* written to the client, and it stays so whatever the task does (missing
\* context values, sink write error) and after the server has finished.
C9_ResponseBeforeLog ==
    \A r \in Reqs :
        logpc[r] # "none" =>
            clientResp[r] = [by |-> "recorder",
                             code |-> respRecorder[r].code,
                             headers |-> respRecorder[r].headers,
                             body |-> respRecorder[r].body]

C9_Witness ==
    \E r \in Reqs :
        /\ logpc[r] = "aborted"
        /\ req[r].category = "search"
        /\ rpc[r] = "finished"
        /\ respRecorder[r].code = 404
        /\ clientResp[r].body = "not found"

\* C10: once the logging task is detached, nothing it can reach (it holds
\* the *http.Request with its header map and context, and the response
\* recorder) is mutated any more by the request task or the server.
C10_SnapshotOnly ==
    [][\A r \in Reqs :
          logpc[r] \in LogActive =>
              /\ reqObj'[r] = reqObj[r]
              /\ respRecorder'[r] = respRecorder[r]]_vars

(***************************************************************************)
(* Chain properties                                                        *)
(***************************************************************************)

Classification == {"classifyCategory", "classify.Op", "classify.Indices"}
Validation == {"validate.Indices", "validate.Operation", "validate.Category"}

Ran(stage) == \E i \in 1..Len(chTrace) : chTrace[i] = stage

\* stage b has run only after stage a
RunsBefore(a, b) ==
    \A j \in 1..Len(chTrace) :
        chTrace[j] = b => \E i \in 1..(j - 1) : chTrace[i] = a

\* the parts of the order the claim and the code agree on
ChainOrderCommon ==
    /\ \A c \in Classification : RunsBefore(c, "auth.BasicAuth")
    /\ \A v \in Validation : RunsBefore("auth.BasicAuth", v)
    /\ \A i \in 1..Len(list) : RunsBefore(list[i], "handler")
    /\ chResp.by = "handler" => Len(chTrace) = Len(list) + 1

\* C8 as stated: classification before authentication, authentication
\* before every validation stage, the category and index authorization
\* stages before operation validation, the handler after every stage.
C8_CanonicalOrder ==
    /\ ChainOrderCommon
    /\ RunsBefore("validate.Indices", "validate.Operation")
    /\ RunsBefore("validate.Category", "validate.Operation")

\* C8 amended: classification before authentication, authentication before
\* every validation stage, index authorization before operation validation,
\* operation validation before category authorization, the handler after
\* every stage has passed.
C8_ListOrder ==
    /\ ChainOrderCommon
    /\ RunsBefore("validate.Indices", "validate.Operation")
    /\ RunsBefore("validate.Operation", "validate.Category")

C8_Witness ==
    /\ chResp.by = "handler"
    /\ chTrace = Wrap("handler")
    /\ chReq.method = "DELETE"
    /\ ~chReq.credential.admin

(***************************************************************************)
(* Audit record properties                                                 *)
(***************************************************************************)

\* C11: for every request body and response body of length n, the body
\* stored in the audit record is exactly its first min(n, 1000000) bytes, in
\* the ReactiveSearch branch and for every other category
C11_FirstBytesStored ==
    bodyPc = "recorded" =>
        /\ bodyRec.req =
              Slice(bodyIn.reqBody, Min(BytesLen(bodyIn.reqBody), BodyCap))
        /\ bodyRec.resp =
              Slice(bodyIn.respBody, Min(BytesLen(bodyIn.respBody), BodyCap))

\* no stored body is longer than the ceiling
C11_NeverMore ==
    /\ BytesLen(bodyRec.req) <= BodyCap
    /\ BytesLen(bodyRec.resp) <= BodyCap

\* C12: under every interleaving of recordResponse tasks, every record in the
\* sink is immediately followed by its own newline, and no two records are
\* back to back without a newline between them
C12_NewlineDelimited ==
    \A i \in 1..(Len(sink) - 1) :
        sink[i].kind = "record" =>
            sink[i + 1] = [kind |-> "newline", of |-> sink[i].of]

\* the handling of request r is over: recorder has returned to the server and
\* no recordResponse task of r is left to run
Over(r) ==
    /\ rpc[r] = "finished"
    /\ logpc[r] \in {"none", "done", "aborted"}

RecordsOf(r) == {i \in 1..Len(sink) : sink[i] = [kind |-> "record", of |-> r]}

\* C13: every request that passes through recorder and is not marked
\* X-Request-Category = "streams" gets exactly one audit record written to the
\* sink: once its handling is over, the sink holds one record of it
C13_ExactlyOneRecord ==
    \A r \in Reqs :
        (~req[r].streams /\ Over(r)) => Cardinality(RecordsOf(r)) = 1

\* no request ever has more than one record
C13_AtMostOneRecord == \A r \in Reqs : Cardinality(RecordsOf(r)) <= 1

(***************************************************************************)
(* Singleton properties                                                    *)
(***************************************************************************)

\* C14: Instance() returns the same single Logs instance on every call,
\* concurrent first calls included: the instance is constructed exactly
\* once, and no call returns nil or a second instance
C14_SameInstance ==
    /\ allocated <= 1
    /\ \A c \in Calls :
          instPc[c] = "returned" =>
              /\ allocated = 1
              /\ instRes[c].inst # NilLogs
              /\ instRes[c].inst = singleton
    /\ \A c, d \in Calls :
          (instPc[c] = "returned" /\ instPc[d] = "returned") =>
              instRes[c].inst = instRes[d].inst

\* two first calls raced for the lock, and a later call took the fast path;
\* all of them have returned
C14_Witness ==
    \E c, d, e \in Calls :
        /\ c # d
        /\ instPc[c] = "returned" /\ instRes[c].slow
        /\ instPc[d] = "returned" /\ instRes[d].slow
        /\ instPc[e] = "returned" /\ ~instRes[e].slow

(***************************************************************************)
(* Users dao properties                                                    *)
(***************************************************************************)

\* newClient returned (es, nil)
NewClientSucceeded == uPc = "returned" /\ uRes.es /\ ~uRes.err /\ ~uRes.panic

\* C15: whenever newClient returns successfully, the master admin user (its
\* username taken from the environment, or the default) exists in the user
\* store with hash type "bcrypt" and the bcrypt hash of its password
C15_MasterUserExists ==
    NewClientSucceeded =>
        /\ uDocs[uRes.master].present
        /\ uDocs[uRes.master].is_admin
        /\ uDocs[uRes.master].password_hash_type = "bcrypt"
        /\ uDocs[uRes.master].password = BcryptHash(uRes.PASSWORD)

\* hashPasswords has just returned nil to newClient
HashPasswordsSucceeded ==
    uPc = "deferred" /\ hpRes.ran /\ ~hpRes.err /\ ~hpRes.panic

\* C20: after hashPasswords returns without error, every user record has a
\* non-empty hash type and a password that is the bcrypt hash of its former
\* plaintext, and the records that had a hash type are unchanged
C20_AllHashed ==
    HashPasswordsSucceeded =>
        \A u \in Present(hpRes.before) :
            IF hpRes.before[u].password_hash_type # ""
            THEN uDocs[u] = hpRes.before[u]
            ELSE /\ uDocs[u].password_hash_type # ""
                 /\ uDocs[u].password = BcryptHash(hpRes.before[u].password.of)

\* hashPasswords leaves the records that have a hash type as they are
C20_HashedUnchanged ==
    hpRes.ran =>
        \A u \in Present(hpRes.before) :
            hpRes.before[u].password_hash_type # "" =>
                (uPc = "deferred" => uDocs[u] = hpRes.before[u])

(***************************************************************************)
(* Operation validation properties                                         *)
(***************************************************************************)

\* a completed request classified Delete whose credential resolves and
\* grants the category of the route and the target indices
DeleteDecided ==
    /\ chResp.by # "none"
    /\ chReq.method = "DELETE"
    /\ chCtx.op = Delete
    /\ chReq.credential.known
    /\ chReq.credential.category
    /\ chReq.credential.indices

Denied(reason) == chResp.code = 403 /\ chResp.reason = reason
Allowed == chResp.by = "handler" /\ chResp.code = 200

C17_WitnessValid ==
    /\ resolved.indices = {permissionIndex}
    /\ resolved.at = resolved.created_at + resolved.ttl
    /\ resolved.ttl > 0
    /\ resolved.outcome = "Resolved"

(***************************************************************************)
(* Rate limiter properties                                                 *)
(***************************************************************************)

\* the requests with key k decided in window w, and those of them allowed
Decided(k, w) ==
    {r \in Burst : /\ lreq[r].key = k
                   /\ lreq[r].window = w
                   /\ lreq[r].state \in {"allowed", "limited"}}
AllowedIn(k, w) == {r \in Decided(k, w) : lreq[r].state = "allowed"}

ExactlyLimit ==
    \A k \in LimitKeys, w \in 0..MaxWindows :
        Cardinality(AllowedIn(k, w)) = Min(Cardinality(Decided(k, w)), limit)

RejectedKeepsBucket ==
    \A r \in Burst :
        (lreq[r].state = "waiting" /\ lreq'[r].state = "limited") =>
            bucket' = bucket

\* C18: of N > L requests against the same (credential, Category) key within
\* one window, exactly L succeed and N - L are RateLimited under every
\* interleaving, and a rejected request does not change the bucket
C18_ExactlyLimitPerWindow == []ExactlyLimit /\ [][RejectedKeepsBucket]_vars

\* a burst of more requests than the limit, all against one key in one window
C18_Witness ==
    \E k \in LimitKeys, w \in 0..MaxWindows :
        /\ Cardinality(Decided(k, w)) > limit
        /\ limit > 1
        /\ Cardinality(AllowedIn(k, w)) = limit

(***************************************************************************)
(* Rollover housekeeping properties                                        *)
(***************************************************************************)

\* the two indices of the set with the highest rollover numbers
TwoNewest(indices) ==
    {n \in indices : Cardinality({m \in indices : m > n}) < Preserved}

\* C19: after every run of rolloverIndexJob, if more than two indices
\* `<alias>-<number>` existed, exactly the two with the highest rollover
\* numbers remain; if two or fewer existed or the listing failed, none is
\* deleted; the current write index is never deleted
C19_KeepsTwoNewest ==
    job.ran =>
        /\ IF Cardinality(job.found) > Preserved /\ ~job.listFails
           THEN logIndices = TwoNewest(job.found)
           ELSE logIndices = job.found
        /\ WriteIndex(job.found) \in logIndices

\* the same for the runs in which no call but the listing fails and every
\* number fits the padding
C19_KeepsTwoNewestPadded ==
    (/\ job.ran /\ ~job.panic /\ ~job.deleteFails
     /\ \A n \in job.found : n < Pow10(PadWidth)) =>
        /\ IF Cardinality(job.found) > Preserved /\ ~job.listFails
           THEN logIndices = TwoNewest(job.found)
           ELSE logIndices = job.found
        /\ WriteIndex(job.found) \in logIndices

(***************************************************************************)
(* Recorder transparency properties                                        *)
(***************************************************************************)

\* positions of recorder at which the copy to the client is complete
Copied == {"spawn", "returned", "finished"}

OneHitNoError ==
    /\ authCall.op = "getCredential"
    /\ ~authCall.panic
    /\ authCall.err = ""
    /\ Cardinality(SearchHits(authCall.seen, authCall.username)) = 1

\* C22: whenever getCredential returns without error after the store
\* reported exactly one matching record, it returns a non-nil credential
\* whose concrete type follows the index the record came from: a User for a
\* hit in the user index, a Permission for a hit in the permission index.
C22_TypeFollowsIndex ==
    OneHitNoError =>
        /\ authCall.cred # NilCred
        /\ SearchHits(authCall.seen, authCall.username) = {authCall.cred.kind}

\* the part of C22 the code keeps: a credential that is returned has the
\* type of the index of the single hit
C22_NonNilFollowsIndex ==
    (OneHitNoError /\ authCall.cred # NilCred) =>
        SearchHits(authCall.seen, authCall.username) = {authCall.cred.kind}

(***************************************************************************)
(* Rollover failure properties                                             *)
(***************************************************************************)

\* the last run of the job was one whose rollover request failed
RolloverFailed == job.ran /\ job.rolloverFails

\* C23: a failure of the rollover request inside rolloverIndexJob is only
\* logged: the job does not crash or abort, does not update the index/alias
\* mapping, and still completes the old-index housekeeping step (with the
\* listing and the delete succeeding, at most the preserved number of
\* indices is left)
C23_RolloverFailureOnlyLogged ==
    RolloverFailed =>
        /\ ~job.panic
        /\ ~job.rolledOver
        /\ (~job.listFails /\ ~job.deleteFails) =>
              Cardinality(logIndices) <= Preserved

\* the part of C23 the code keeps: a run whose rollover request failed
\* creates no index and leaves the index/alias mapping alone
C23_FailureChangesNothing ==
    RolloverFailed => (~job.rolledOver /\ logIndices = job.found)
====
